---- MODULE Spec2Model ----
(***************************************************************************)
(* A model of app.py, the regression dashboard: the runs table, the JSON   *)
(* ingestion endpoint, the 10:00:01-anchored window resolver and the read  *)
(* views that aggregate the runs of a window.                              *)
(*                                                                         *)
(* Dates and times.  A naive datetime is a record [d, s]: d is the         *)
(* proleptic Gregorian ordinal of its date (date.toordinal(), 1 for        *)
(* 0001-01-01) and s the second of its day.  An aware datetime has a third *)
(* field, off, its UTC offset in seconds.  A raised exception is a record  *)
(* [exc |-> name].  Microseconds are not modelled.                         *)
(***************************************************************************)
EXTENDS Integers, Sequences, FiniteSets, TLC

(***************************************************************************)
(* Python values                                                           *)
(***************************************************************************)

\* Python's None where a string is expected (a column value, an argument):
\* a value different from every string the inputs hold, "" included.
None == "<None>"

\* Python's None where a datetime is expected (ended_at).
NoneDt == [none |-> TRUE]

\* bool(v) of a string-or-None value: None and "" are false.
Truthy(v) == v # None /\ v # ""

Exc(name) == [exc |-> name]

IsExc(x) == "exc" \in DOMAIN x

(***************************************************************************)
(* The datetime library                                                    *)
(***************************************************************************)

SecPerDay == 86400

IsLeap(y) == (y % 4 = 0) /\ ((y % 100 # 0) \/ (y % 400 = 0))

DaysBeforeMonth(y, m) ==
    LET cum == <<0, 31, 59, 90, 120, 151, 181, 212, 243, 273, 304, 334>>
    IN  cum[m] + (IF m > 2 /\ IsLeap(y) THEN 1 ELSE 0)

\* date(y, m, d).toordinal()
ToOrdinal(y, m, d) ==
    LET p == y - 1
    IN  p * 365 + (p \div 4) - (p \div 100) + (p \div 400) + DaysBeforeMonth(y, m) + d

\* datetime.min and datetime.max, as dates
MinOrd == ToOrdinal(1, 1, 1)
MaxOrd == ToOrdinal(9999, 12, 31)

\* datetime(year, month, day, h, mi, sec) of the date with ordinal d
At(d, h, mi, sec) == [d |-> d, s |-> h * 3600 + mi * 60 + sec]

IsAware(dt) == "off" \in DOMAIN dt

\* The datetime of date ordinal d2 and second s2 with the tzinfo (if any) of
\* dt; OverflowError outside datetime.min .. datetime.max
Carry(dt, d2, s2) ==
    IF d2 < MinOrd \/ d2 > MaxOrd THEN Exc("OverflowError")
    ELSE IF IsAware(dt) THEN [d |-> d2, s |-> s2, off |-> dt.off]
    ELSE [d |-> d2, s |-> s2]

\* dt + timedelta(seconds=n): the wall clock moves, the tzinfo stays
AddSeconds(dt, n) ==
    Carry(dt, dt.d + ((dt.s + n) \div SecPerDay), (dt.s + n) % SecPerDay)

\* dt + timedelta(days=n)
AddDays(dt, n) == AddSeconds(dt, n * SecPerDay)

\* dt.replace(tzinfo=None)
Naive(dt) == [d |-> dt.d, s |-> dt.s]

\* a < b and a <= b for two naive datetimes (or the UTC forms of two instants)
DtLess(a, b) == a.d < b.d \/ (a.d = b.d /\ a.s < b.s)
DtLeq(a, b) == a.d < b.d \/ (a.d = b.d /\ a.s <= b.s)

\* The UTC offset of APP_TZ = "Asia/Kolkata": +05:30, with no transitions.
TzOffset == 5 * 3600 + 30 * 60

\* r.replace(tzinfo=<the zone of offset off>), unless r is an exception
WithOffset(r, off) == IF IsExc(r) THEN r ELSE [d |-> r.d, s |-> r.s, off |-> off]

\* dt.astimezone(tz) for an aware dt and the zone of offset off: the same
\* instant on the other wall clock
AsTimezone(dt, off) == WithOffset(AddSeconds(Naive(dt), off - dt.off), off)

\* r.replace(tzinfo=None), unless r is an exception
StripTz(r) == IF IsExc(r) THEN r ELSE Naive(r)

\* dt.astimezone(pytz.UTC).replace(tzinfo=None)
ToNaiveUtc(dt) == StripTz(AsTimezone(dt, 0))

\* pytz.timezone(APP_TZ).localize(naive): pytz looks one day to either side
\* of the wall time for the zone's transitions, so the ends of the datetime
\* range overflow
Localize(dt) ==
    IF IsExc(AddDays(dt, -1)) \/ IsExc(AddDays(dt, 1)) THEN Exc("OverflowError")
    ELSE [d |-> dt.d, s |-> dt.s, off |-> TzOffset]

\* pytz.UTC.localize(naive)
LocalizeUtc(dt) == [d |-> dt.d, s |-> dt.s, off |-> 0]

\* a >= b for two aware datetimes (compared as instants)
AwareGeq(a, b) == DtLeq(Naive(AsTimezone(b, 0)), Naive(AsTimezone(a, 0)))

(***************************************************************************)
(* Strings that hold a date or a time (a query argument, a JSON field).    *)
(*   [k |-> "iso", d, s]       "YYYY-MM-DDTHH:MM:SS"                       *)
(*   [k |-> "iso", d, s, off]  the same with a UTC offset ("Z" is off 0)   *)
(*   [k |-> "date", d]         "YYYY-MM-DD"                                *)
(*   [k |-> "bad"]             a string that is neither                    *)
(*   [k |-> "empty"]           ""                                          *)
(*   [k |-> "absent"]          no such argument (None)                     *)
(***************************************************************************)
Absent == [k |-> "absent"]
Empty == [k |-> "empty"]
Bad == [k |-> "bad"]
IsoNaive(d, s) == [k |-> "iso", d |-> d, s |-> s]
IsoAware(d, s, off) == [k |-> "iso", d |-> d, s |-> s, off |-> off]
DateStr(d) == [k |-> "date", d |-> d]

\* bool(value) of a string-or-None argument
Given(v) == v.k \notin {"absent", "empty"}

\* datetime.fromisoformat(value)
FromIsoFormat(v) ==
    CASE v.k = "iso" /\ "off" \in DOMAIN v -> [d |-> v.d, s |-> v.s, off |-> v.off]
      [] v.k = "iso" -> [d |-> v.d, s |-> v.s]
      [] v.k = "date" -> [d |-> v.d, s |-> 0]
      [] OTHER -> Exc("ValueError")

\* datetime.strptime(value, "%Y-%m-%d")
StrpDate(v) == IF v.k = "date" THEN [d |-> v.d, s |-> 0] ELSE Exc("ValueError")

(***************************************************************************)
(* Helpers of app.py                                                       *)
(***************************************************************************)

\* The window's four bounds
Window(sl, el, su, eu) ==
    [start_local |-> sl, end_local |-> el, start_utc |-> su, end_utc |-> eu]

\* The return statement of get_window_bounds
WindowOf(start_local, end_local) ==
    IF IsExc(end_local) THEN end_local
    ELSE Window(start_local, end_local, ToNaiveUtc(start_local), ToNaiveUtc(end_local))

\* WindowFrom with a window that ends at 10:00:00, a second short of the
\* next anchor
WindowFromShort(start_local) ==
    IF IsExc(start_local) THEN start_local
    ELSE WindowOf(start_local, AddSeconds(start_local, SecPerDay - 1))

\* get_window_bounds from "end_local = start_local + timedelta(days=1)" on
WindowFrom(start_local) ==
    IF IsExc(start_local) THEN start_local
    ELSE WindowOf(start_local, AddDays(start_local, 1))

\* AnchorFor with ">" for ">=": the anchor instant itself falls in
\* yesterday's window
AnchorForStrict(now_local, ten_am_today) ==
    IF AwareGeq(now_local, ten_am_today) /\ Naive(now_local) # Naive(ten_am_today)
    THEN ten_am_today
    ELSE AddDays(ten_am_today, -1)

\* The anchor choice of get_window_bounds: today's 10:00:01 when the
\* reference is at or after it, else yesterday's
AnchorFor(now_local, ten_am_today) ==
    IF AwareGeq(now_local, ten_am_today) THEN ten_am_today
    ELSE AddDays(ten_am_today, -1)

\* get_window_bounds once ten_am_today is computed
WindowAround(now_local, ten_am_today) ==
    IF IsExc(ten_am_today) THEN ten_am_today
    ELSE WindowFrom(AnchorFor(now_local, ten_am_today))

\* get_window_bounds(ref_dt_local): ref is an aware local datetime (the
\* caller passes datetime.now(tz) when the code's argument is None)
get_window_bounds(ref) == WindowAround(ref, Localize(At(ref.d, 10, 0, 1)))

\* parse_iso_utc after fromisoformat: None when it raised ValueError
ParsedUtc(dt) ==
    IF IsExc(dt) THEN NoneDt
    ELSE IF IsAware(dt) THEN ToNaiveUtc(dt)
    ELSE dt

\* parse_iso_utc(value): None for a missing or unparseable value
parse_iso_utc(v) == IF ~Given(v) THEN NoneDt ELSE ParsedUtc(FromIsoFormat(v))

\* get_window_bounds(ref_local) of the day branch, ref_local being noon of
\* the day (or the exception localize raised)
NoonWindow(ref_local) == IF IsExc(ref_local) THEN ref_local ELSE get_window_bounds(ref_local)

\* The day branch after strptime: NoneDt when "except ValueError" swallowed
\* the error
DayWindow(day) ==
    IF IsExc(day) THEN NoneDt ELSE NoonWindow(Localize(At(day.d, 12, 0, 0)))

\* The day branch of resolve_window_from_request: a window, an exception
\* that escapes, or NoneDt when the branch falls through
ResolveDay(day_param) ==
    IF Given(day_param) THEN DayWindow(StrpDate(day_param)) ELSE NoneDt

\* The last statement of resolve_window_from_request, reached when the day
\* branch fell through
DayOrDefault(byDay, now_local) ==
    IF byDay # NoneDt THEN byDay ELSE get_window_bounds(now_local)

\* The tail of resolve_window_from_request: the day argument, else the
\* default window of the current instant
ResolveDayOrDefault(args, now_local) == DayOrDefault(ResolveDay(args.day), now_local)

\* The return statement of the start/end branch
ExplicitBounds(start_local, end_local, start_utc, end_utc) ==
    IF IsExc(start_local) THEN start_local
    ELSE IF IsExc(end_local) THEN end_local
    ELSE Window(start_local, end_local, start_utc, end_utc)

\* The start/end branch once both arguments went through parse_iso_utc
ExplicitWindow(start_utc, end_utc, args, now_local) ==
    IF IsExc(start_utc) THEN start_utc
    ELSE IF IsExc(end_utc) THEN end_utc
    ELSE IF start_utc # NoneDt /\ end_utc # NoneDt
    THEN ExplicitBounds(AsTimezone(LocalizeUtc(start_utc), TzOffset),
                        AsTimezone(LocalizeUtc(end_utc), TzOffset),
                        start_utc, end_utc)
    ELSE ResolveDayOrDefault(args, now_local)

\* resolve_window_from_request() for the query arguments args = [start, end,
\* day] at the instant now_local
resolve_window_from_request(args, now_local) ==
    IF Given(args.start) /\ Given(args.end)
    THEN ExplicitWindow(parse_iso_utc(args.start), parse_iso_utc(args.end),
                        args, now_local)
    ELSE ResolveDayOrDefault(args, now_local)

(***************************************************************************)
(* The runs table and the ingestion endpoint                               *)
(***************************************************************************)

\* The column default of Run.scheduler and of item.get("scheduler", ...)
DefaultScheduler == "BLR-NSP-SCHEDULER1"

\* item.get(key, default) of a JSON object
Get(item, key, default) == IF key \in DOMAIN item THEN item[key] ELSE default

\* What the DateTime column keeps of a datetime: its wall clock, the tzinfo
\* dropped
Stored(dt) == IF dt = NoneDt THEN NoneDt ELSE Naive(dt)

\* Run.query.filter_by(request_id=rid).first(): the index of the row, 0 for
\* None
FindByRequestId(rows, rid) ==
    LET hits == {i \in 1..Len(rows) : rows[i].request_id = rid}
    IN  IF hits = {} THEN 0 ELSE CHOOSE i \in hits : \A j \in hits : i <= j

\* IsNewRun with the lookup never finding the row: every element is added
IsNewRunAlways(rows, rid) == TRUE

\* "if not rec": no row has the request_id, so one is added (else the row
\* found is overwritten)
IsNewRun(rows, rid) == FindByRequestId(rows, rid) = 0

\* The row the assignments of the loop body leave for item; started and
\* ended are its parsed timestamps
RunRecord(id, item, started, ended) ==
    [id         |-> id,
     request_id |-> item["request_id"],
     scheduler  |-> Get(item, "scheduler", DefaultScheduler),
     cloud      |-> Get(item, "cloud", None),
     started_at |-> Stored(started),
     ended_at   |-> Stored(ended),
     status     |-> Get(item, "status", "FAILED"),
     reason     |-> Get(item, "reason", None),
     subreason  |-> Get(item, "subreason", None),
     notes      |-> Get(item, "notes", None)]

\* The session's rows after the loop body added or overwrote the row of item
WriteRun(rows, isNew, item, started, ended) ==
    IF isNew
    THEN [rows  |-> Append(rows, RunRecord(Len(rows) + 1, item, started, ended)),
          added |-> TRUE]
    ELSE [rows  |-> [rows EXCEPT ![FindByRequestId(rows, item["request_id"])] =
                        RunRecord(FindByRequestId(rows, item["request_id"]),
                                  item, started, ended)],
          added |-> FALSE]

\* The loop body once both timestamps went through fromisoformat
UpsertParsed(rows, item, started, ended) ==
    IF IsExc(started) THEN started
    ELSE IF IsExc(ended) THEN ended
    ELSE WriteRun(rows, IsNewRun(rows, item["request_id"]), item, started, ended)

\* One pass of the loop body of ingest_json over item, on the session's
\* rows: the rows after it and whether a row was added, or the exception
UpsertItem(rows, item) ==
    IF "request_id" \notin DOMAIN item THEN Exc("KeyError")
    ELSE IF "started_at" \notin DOMAIN item THEN Exc("KeyError")
    ELSE UpsertParsed(rows, item, FromIsoFormat(item["started_at"]),
                      IF Given(Get(item, "ended_at", Absent))
                      THEN FromIsoFormat(item["ended_at"]) ELSE NoneDt)

\* The loop once element i went through the loop body with result r
RECURSIVE IngestLoop(_, _, _, _, _)
IngestStep(rows, payload, i, added, updated, r) ==
    IF IsExc(r)
    THEN [rows |-> rows, added |-> added, updated |-> updated, exc |-> r.exc, at |-> i]
    ELSE IngestLoop(r.rows, payload, i + 1,
                    IF r.added THEN added + 1 ELSE added,
                    IF r.added THEN updated ELSE updated + 1)

\* The loop of ingest_json from element i on: the session's rows, the two
\* tallies and, when an element raised, the exception and the element
IngestLoop(rows, payload, i, added, updated) ==
    IF i > Len(payload)
    THEN [rows |-> rows, added |-> added, updated |-> updated, exc |-> None, at |-> 0]
    ELSE IngestStep(rows, payload, i, added, updated, UpsertItem(rows, payload[i]))

\* Committed with every element committed as it is processed: the rows
\* written before the exception stay
CommittedPartial(before, outcome) == outcome.rows

\* What the table holds once the request is over, given the table before it
\* and the outcome of the loop: db.session.commit() is the last statement of
\* the loop's normal path only, and a session that was never committed is
\* discarded with the request
Committed(before, outcome) == IF outcome.exc = None THEN outcome.rows ELSE before

\* The result of the request: the table after it, the tallies, the exception
IngestResult(before, outcome) ==
    [rows    |-> Committed(before, outcome),
     added   |-> outcome.added,
     updated |-> outcome.updated,
     exc     |-> outcome.exc,
     at      |-> outcome.at]

\* ingest_json on the table rows with the JSON array payload
ingest_json(rows, payload) == IngestResult(rows, IngestLoop(rows, payload, 1, 0, 0))

(***************************************************************************)
(* Queries on the runs table                                               *)
(***************************************************************************)

RowsOf(rows) == {rows[i] : i \in 1..Len(rows)}

\* InWindow with "<=" for "<" on the end bound
InWindowClosed(r, start_utc, end_utc) ==
    DtLeq(start_utc, r.started_at) /\ DtLeq(r.started_at, end_utc)

\* InWindow with the lower bound left out
InWindowNoStart(r, start_utc, end_utc) == DtLess(r.started_at, end_utc)

\* The filter every windowed view applies:
\* Run.started_at >= start_utc, Run.started_at < end_utc
InWindow(r, start_utc, end_utc) ==
    DtLeq(start_utc, r.started_at) /\ DtLess(r.started_at, end_utc)

RunsIn(rows, w) == {r \in RowsOf(rows) : InWindow(r, w.start_utc, w.end_utc)}

\* The strings of the reason column in the inputs, in the column's (binary)
\* collating order
Collation == <<"", "Quota Exceed", "Unknown">>

\* The place of a reason in ORDER BY Run.reason: NULL sorts first (SQLite,
\* the default database), then the strings in collating order
ReasonRank(x) ==
    IF x = None THEN 0 ELSE CHOOSE i \in 1..Len(Collation) : Collation[i] = x

\* ORDER BY of the GROUP BY Run.reason rows as SQLite returns them
ByReasonRank(a, b) == ReasonRank(a) <= ReasonRank(b)

\* ORDER BY Run.reason, Run.started_at DESC
FailuresOrder(a, b) ==
    \/ ReasonRank(a.reason) < ReasonRank(b.reason)
    \/ ReasonRank(a.reason) = ReasonRank(b.reason) /\ DtLeq(b.started_at, a.started_at)

\* ORDER BY Run.started_at DESC
RecentFirst(a, b) == DtLeq(b.started_at, a.started_at)

\* The rows a and b may come in this order from a query ordered by `by`: the
\* reason groups of api_summary, the failed runs of api_failures, the runs
\* of api_runs, or a query with no ORDER BY, whose rows come in any order
OrderedBy(by, a, b) ==
    CASE by = "reason"   -> ByReasonRank(a, b)
      [] by = "failures" -> FailuresOrder(a, b)
      [] by = "recent"   -> RecentFirst(a, b)
      [] OTHER           -> TRUE

\* The sequences that list every element of S once, in an order the query
\* allows: the orders .all() may return the rows in
Orderings(S, by) ==
    {f \in [1..Cardinality(S) -> S] :
        /\ \A i, j \in 1..Cardinality(S) : i # j => f[i] # f[j]
        /\ \A i, j \in 1..Cardinality(S) : i < j => OrderedBy(by, f[i], f[j])}

\* dt.isoformat(), and None for a missing datetime
IsoFormat(dt) ==
    IF dt = NoneDt THEN Absent
    ELSE IF IsAware(dt) THEN IsoAware(dt.d, dt.s, dt.off)
    ELSE IsoNaive(dt.d, dt.s)

DEFAULT_LOG_BASE_URL == "https://logs.example.com/request/"

\* Run.to_dict(with_links=True)
to_dict(r) ==
    [request_id |-> r.request_id,
     scheduler  |-> r.scheduler,
     cloud      |-> r.cloud,
     started_at |-> IsoFormat(r.started_at),
     ended_at   |-> IsoFormat(r.ended_at),
     status     |-> r.status,
     reason     |-> r.reason,
     subreason  |-> r.subreason,
     notes      |-> r.notes,
     log_url    |-> DEFAULT_LOG_BASE_URL \o r.request_id]

\* reason or "Unknown"
ReasonKey(x) == IF Truthy(x) THEN x ELSE "Unknown"

\* cloud or "unknown"
CloudKey(x) == IF Truthy(x) THEN x ELSE "unknown"

\* The failure counts of api_summary: one entry per stored reason among the
\* failed runs, labelled reason or "Unknown"
FailureCounts(failed, grouped) ==
    [i \in 1..Len(grouped) |->
        [reason |-> ReasonKey(grouped[i]),
         count  |-> Cardinality({r \in failed : r.reason = grouped[i]})]]

\* The status_counts of api_summary over the runs q of the window
StatusCounts(q) ==
    [st \in {r.status : r \in q} |-> Cardinality({r \in q : r.status = st})]

\* The reasons of the failed runs, one per group, in the order of the rows
ReasonGroups(failed) ==
    CHOOSE f \in Orderings({r.reason : r \in failed}, "reason") : TRUE

\* The JSON of api_summary over the runs q of the window w
SummaryBody(w, q, failed) ==
    [window        |-> [start_iso |-> IsoFormat(w.start_local),
                        end_iso   |-> IsoFormat(w.end_local)],
     total_runs    |-> Cardinality(q),
     status_counts |-> StatusCounts(q),
     failures      |-> FailureCounts(failed, ReasonGroups(failed))]

\* The failed runs of the window w
FailedRuns(rows, w) == {r \in RunsIn(rows, w) : r.status = "FAILED"}

\* The body of api_summary for the window w
api_summary(rows, w) == SummaryBody(w, RunsIn(rows, w), FailedRuns(rows, w))

\* [r.to_dict() for r in runs]
DictsOf(runs) == [i \in 1..Len(runs) |-> to_dict(runs[i])]

\* The body of api_failures, failed_runs being the rows as the query
\* returned them
api_failures(failed_runs) ==
    [k \in {ReasonKey(failed_runs[i].reason) : i \in 1..Len(failed_runs)} |->
        DictsOf(SelectSeq(failed_runs, LAMBDA r : ReasonKey(r.reason) = k))]

\* "if status: q = q.filter(Run.status == status)", and the same for the
\* other three filters: an absent or empty argument filters nothing
FilterPasses(value, param) == ~Truthy(param) \/ value = param

MatchesFilters(r, args) ==
    /\ FilterPasses(r.status, args.status)
    /\ FilterPasses(r.reason, args.reason)
    /\ FilterPasses(r.scheduler, args.scheduler)
    /\ FilterPasses(r.cloud, args.cloud)

\* The runs the query of api_runs selects: those of the window w that match
\* the filters
FilteredRuns(rows, w, args) == {r \in RunsIn(rows, w) : MatchesFilters(r, args)}

\* The body of api_runs, runs being the rows as the query returned them
api_runs(runs) == DictsOf(runs)

\* One row of the GROUP BY Run.cloud, Run.status query over the runs q
CloudStatusGroup(q, cloud, status) ==
    [cloud |-> cloud, status |-> status,
     cnt   |-> Cardinality({x \in q : x.cloud = cloud /\ x.status = status})]

\* The rows of the GROUP BY Run.cloud, Run.status query of api_by_cloud
CloudStatusGroups(rows, w) ==
    {CloudStatusGroup(RunsIn(rows, w), r.cloud, r.status) : r \in RunsIn(rows, w)}

\* The last element of a set of indices
Last(hits) == CHOOSE i \in hits : \A j \in hits : j <= i

\* out.setdefault(c, {})[status] = cnt, as the loop leaves it for the key
\* (c, status): the count of the last row that wrote the key
LastWrite(groups, c, status) ==
    groups[Last({i \in 1..Len(groups) :
                    CloudKey(groups[i].cloud) = c /\ groups[i].status = status})].cnt

\* The statuses of the rows whose cloud presents as c
StatusesOf(groups, c) ==
    {groups[j].status : j \in {i \in 1..Len(groups) : CloudKey(groups[i].cloud) = c}}

\* The body of api_by_cloud, groups being the grouped rows as the query
\* returned them
api_by_cloud(groups) ==
    [c \in {CloudKey(groups[i].cloud) : i \in 1..Len(groups)} |->
        [st \in StatusesOf(groups, c) |-> LastWrite(groups, c, st)]]

(***************************************************************************)
(* The windows list and the cloud trend                                    *)
(***************************************************************************)

\* The number of windows api_windows lists: range(7)
NumWindows == 7

\* The body of api_windows at the instant now_local: entry i + 1 is the
\* window of now_local - timedelta(days=i)
WindowEntry(w) ==
    [label     |-> DateStr(w.start_local.d),
     start_iso |-> IsoFormat(w.start_utc),
     end_iso   |-> IsoFormat(w.end_utc)]

api_windows(now_local) ==
    [i \in 1..NumWindows |-> WindowEntry(get_window_bounds(AddDays(now_local, -(i - 1))))]

\* The days argument of api_cloud_trend: [k |-> "absent"], [k |-> "int",
\* n |-> n] for a string int() accepts, [k |-> "bad"] for any other string
DefaultDays == 7
MinDays == 1
MaxDays == 30

\* int(request.args.get("days", 7)), 7 on TypeError or ValueError
ParseDays(p) == IF p.k = "int" THEN p.n ELSE DefaultDays

\* max(1, min(days, 30))
Min2(a, b) == IF a < b THEN a ELSE b
Max2(a, b) == IF a > b THEN a ELSE b

ClampDays(n) == Max2(MinDays, Min2(n, MaxDays))

\* func.date(Run.started_at): the date of the stored (UTC) value
RunDate(r) == DateStr(r.started_at.d)

\* strftime("%Y-%m-%d") of a local datetime
DayLabel(dt) == DateStr(dt.d)

default_clouds == {"blr-cloud4", "blr-cloud5"}

\* The runs the trend query filters in
TrendRuns(rows, start_utc, end_utc) ==
    {r \in RowsOf(rows) : InWindow(r, start_utc, end_utc)}

\* One row of the GROUP BY run_date, Run.cloud, Run.status query over q
TrendGroup(q, r) ==
    [run_date |-> RunDate(r), cloud |-> r.cloud, status |-> r.status,
     cnt |-> Cardinality({x \in q : /\ RunDate(x) = RunDate(r)
                                    /\ x.cloud = r.cloud
                                    /\ x.status = r.status})]

\* The rows of the GROUP BY run_date, Run.cloud, Run.status query
TrendGroups(q) == {TrendGroup(q, r) : r \in q}

\* The sum of the counts of a set of grouped rows
RECURSIVE SumCnt(_)
SumRest(groups, g) == g.cnt + SumCnt(groups \ {g})

SumCnt(groups) ==
    IF groups = {} THEN 0 ELSE SumRest(groups, CHOOSE x \in groups : TRUE)

\* BucketOf with failed counting the FAILED rows only
BucketOfFailedOnly(mine) ==
    [passed |-> SumCnt({g \in mine : g.status = "PASSED"}),
     failed |-> SumCnt({g \in mine : g.status = "FAILED"}),
     total  |-> SumCnt(mine)]

\* The day bucket of a cloud and a date once the loop went over its rows:
\* passed counts the PASSED rows, failed every other status
BucketOf(mine) ==
    [passed |-> SumCnt({g \in mine : g.status = "PASSED"}),
     failed |-> SumCnt({g \in mine : g.status # "PASSED"}),
     total  |-> SumCnt(mine)]

\* The grouped rows the loop adds to the bucket of cloud key c and date key
GroupsOf(groups, c, date_key) ==
    {g \in groups : CloudKey(g.cloud) = c /\ g.run_date = date_key}

\* {"date": day, **bucket}, the bucket being stats_by_day.get(day, zeros)
EntryOf(day, mine) ==
    IF mine = {} THEN [date |-> day, passed |-> 0, failed |-> 0, total |-> 0]
    ELSE [date |-> day] @@ BucketOf(mine)

\* One entry of a cloud's series
SeriesEntry(groups, c, day) == EntryOf(day, GroupsOf(groups, c, day))

\* The JSON of api_cloud_trend from the day labels and the grouped rows
TrendBody(day_labels, groups, start_local, end_local) ==
    [days   |-> day_labels,
     clouds |-> [c \in default_clouds \cup {CloudKey(g.cloud) : g \in groups} |->
                    [i \in 1..Len(day_labels) |-> SeriesEntry(groups, c, day_labels[i])]],
     window |-> [start_iso |-> IsoFormat(start_local),
                 end_iso   |-> IsoFormat(end_local)]]

\* The day labels: the dates of start_local + timedelta(days=i), i < days
DayLabels(start_local, days) ==
    [i \in 1..days |-> DayLabel(AddDays(start_local, i - 1))]

\* api_cloud_trend once the range is computed
TrendOver(rows, days, start_local, end_local) ==
    TrendBody(DayLabels(start_local, days),
              TrendGroups(TrendRuns(rows, ToNaiveUtc(start_local), ToNaiveUtc(end_local))),
              start_local, end_local)

\* api_cloud_trend once days is clamped and midnight_today is computed
TrendFrom(rows, days, midnight_today) ==
    TrendOver(rows, days, AddDays(midnight_today, -(days - 1)), AddDays(midnight_today, 1))

\* The body of api_cloud_trend for the days argument p at now_local
api_cloud_trend(rows, p, now_local) ==
    TrendFrom(rows, ClampDays(ParseDays(p)), Localize(At(now_local.d, 0, 0, 0)))

(***************************************************************************)
(* The inputs of the model                                                 *)
(***************************************************************************)

\* The longest JSON array ingested in one request
MaxBatch == 2

\* The number of calendar days, from 2025-10-23 on, the reference instants
\* of the window resolver are drawn from
RefDays == 2

Oct23 == ToOrdinal(2025, 10, 23)
Oct24 == ToOrdinal(2025, 10, 24)
Oct25 == ToOrdinal(2025, 10, 25)

\* An aware datetime of the business timezone
Local(d, h, mi, sec) == [d |-> d, s |-> h * 3600 + mi * 60 + sec, off |-> TzOffset]

\* "…Z" and naive ISO strings
IsoZ(d, h, mi, sec) == IsoAware(d, h * 3600 + mi * 60 + sec, 0)
Iso(d, h, mi, sec) == IsoNaive(d, h * 3600 + mi * 60 + sec)

\* The instants requests arrive at
NowSet == {Local(Oct24, 12, 0, 0), Local(Oct25, 3, 0, 0)}

\* The elements of the ingested arrays.  r1 and r2 of the example: 05:00Z is
\* 10:30 local, 03:00Z is 08:30 local.
ItemR1 == [request_id |-> "r1", started_at |-> IsoZ(Oct24, 5, 0, 0), status |-> "PASSED"]
ItemR2 == [request_id |-> "r2", started_at |-> IsoZ(Oct24, 3, 0, 0), status |-> "FAILED",
           reason |-> "Quota Exceed"]

\* every field given
ItemFull(rid) ==
    [request_id |-> rid, scheduler |-> "BLR-NSP-SCHEDULER2", cloud |-> "blr-cloud4",
     started_at |-> Iso(Oct24, 5, 0, 0), ended_at |-> Iso(Oct24, 6, 0, 0),
     status |-> "PASSED", reason |-> "Quota Exceed", subreason |-> "quota", notes |-> "n"]

\* the required fields only; 20:30 UTC on Oct 23 is 02:00 local on Oct 24
ItemMinimal(rid) == [request_id |-> rid, started_at |-> Iso(Oct23, 20, 30, 0)]

\* the sentinel strings as stored values
ItemLiteral(rid) ==
    [request_id |-> rid, started_at |-> Iso(Oct24, 5, 0, 0), status |-> "FAILED",
     reason |-> "Unknown", cloud |-> "unknown"]

\* empty strings; 04:30:01 UTC is the 10:00:01 local anchor of Oct 24
ItemEmpty(rid) ==
    [request_id |-> rid, started_at |-> Iso(Oct24, 4, 30, 1), status |-> "FAILED",
     reason |-> "", cloud |-> ""]

ItemKilled(rid) ==
    [request_id |-> rid, started_at |-> Iso(Oct24, 12, 0, 0), status |-> "KILLED",
     cloud |-> "blr-cloud5"]

ItemNoRequestId == [started_at |-> Iso(Oct24, 5, 0, 0), status |-> "PASSED"]
ItemNoStartedAt == [request_id |-> "r1", status |-> "PASSED"]

WellFormedItems ==
    {ItemR1, ItemR2, ItemFull("r1"), ItemEmpty("r1"),
     ItemMinimal("r2"), ItemLiteral("r2"), ItemKilled("r2")}

Items == WellFormedItems \cup {ItemNoRequestId, ItemNoStartedAt}

SeqsUpTo(S, n) == UNION {[1..k -> S] : k \in 0..n}

\* The arrays of the ingestion requests
Payloads == SeqsUpTo(Items, MaxBatch)

WellFormedPayloads == SeqsUpTo(WellFormedItems, MaxBatch)

\* The arrays that fill the table the read views are checked on: one run
\* each, any table being the result of such requests
SingleRunPayloads == {<<item>> : item \in WellFormedItems}

NoArgs == [start |-> Absent, end |-> Absent, day |-> Absent]

\* The window arguments of the read views on the evolving table
ReadArgs ==
    {NoArgs,
     [start |-> Absent, end |-> Absent, day |-> DateStr(Oct24)],
     [start |-> Absent, end |-> Absent, day |-> DateStr(Oct23)],
     [start |-> Iso(Oct23, 0, 0, 0), end |-> Iso(Oct25 + 1, 0, 0, 0), day |-> Absent]}

\* The query arguments of api_runs: the window arguments and the four
\* optional filters
NoFilters == [status |-> None, reason |-> None, scheduler |-> None, cloud |-> None]

Filters ==
    {NoFilters,
     [NoFilters EXCEPT !.status = "FAILED"],
     [NoFilters EXCEPT !.reason = "Quota Exceed"],
     [NoFilters EXCEPT !.scheduler = "BLR-NSP-SCHEDULER2"],
     [NoFilters EXCEPT !.cloud = "blr-cloud4"]}

RunsArg(a, f) ==
    [start |-> a.start, end |-> a.end, day |-> a.day,
     status |-> f.status, reason |-> f.reason, scheduler |-> f.scheduler,
     cloud |-> f.cloud]

RunsArgs == {RunsArg(a, f) : a \in ReadArgs, f \in Filters}

\* The seconds of the day the reference instants fall on: midnight, 05:30
\* (midnight UTC), 10:00:00, the 10:00:01 anchor, noon and the last second
\* of the day
RefSeconds == {0, 19800, 36000, 36001, 43200, 86399}

\* The reference instants of the window resolver
RefInstants ==
    {[d |-> Oct23 + i, s |-> sec, off |-> TzOffset] : i \in 0..(RefDays - 1), sec \in RefSeconds}

\* The start, end and day arguments the window resolver is checked on; the
\* last of each lie at the ends of the datetime range
StartArgs ==
    {Absent, Empty, Bad, Iso(Oct24, 0, 0, 0), IsoAware(Oct24, 36001, TzOffset),
     DateStr(Oct24), Iso(MaxOrd, 23, 0, 0), IsoAware(MinOrd, 0, TzOffset)}

EndArgs == {Absent, Bad, Iso(Oct25, 0, 0, 0), IsoAware(Oct25, 36001, TzOffset)}

DayArgs == {Absent, Empty, Bad, Iso(Oct24, 0, 0, 0), DateStr(Oct24), DateStr(MaxOrd)}

\* Every start with every end, alone and beside a day; every day alone
WinArgs ==
    {[start |-> a, end |-> b, day |-> c] :
        a \in StartArgs, b \in EndArgs, c \in {Absent, DateStr(Oct24)}}
    \cup {[start |-> Absent, end |-> Absent, day |-> c] : c \in DayArgs}

\* The days arguments of the cloud trend
DaysArgs ==
    {[k |-> "absent"], [k |-> "bad"]} \cup
    {[k |-> "int", n |-> n] : n \in {0, 1, 2, 31}}

(***************************************************************************)
(* The state machine: one step per request                                 *)
(***************************************************************************)
VARIABLES
    store,   \* the runs table: the committed rows, in insertion order
    now,     \* datetime.now(tz)
    resp     \* the request last served and its response

vars == <<store, now, resp>>

NoResp == [kind |-> "none", status |-> 0]

Response(kind, args, status, body) ==
    [kind |-> kind, args |-> args, at |-> now, status |-> status, body |-> body]

\* The response of a view that resolved its window to w: the 500 response
\* when resolving raised (no handler catches it), else the body
Served(kind, args, w, body) ==
    IF IsExc(w) THEN Response(kind, args, 500, w)
    ELSE Response(kind, args, 200, body)

\* Time passes between two requests
Tick(instants) ==
    /\ \E t \in instants :
          /\ DtLess(ToNaiveUtc(now), ToNaiveUtc(t))
          /\ now' = t
    /\ UNCHANGED <<store, resp>>

\* The response of ingest_json: the redirect (the tallies are flashed), or
\* the 500 of the exception no handler catches
IngestResponse(n, r) ==
    IF r.exc = None
    THEN Response("ingest", [items |-> n], 302, [added |-> r.added, updated |-> r.updated])
    ELSE Response("ingest", [items |-> n], 500, [exc |-> r.exc, at |-> r.at])

\* POST /ingest/json with a JSON array
IngestJson(payload) ==
    /\ store' = ingest_json(store, payload).rows
    /\ resp' = IngestResponse(Len(payload), ingest_json(store, payload))
    /\ UNCHANGED now

\* POST /ingest/json with JSON that is not an array
IngestNotArray ==
    /\ resp' = Response("ingest", [items |-> 0], 400, [error |-> "Expected a JSON array"])
    /\ UNCHANGED <<store, now>>

SummaryResponse(args, w) == Served("summary", args, w, api_summary(store, w))

\* GET /api/summary
ApiSummary(args) ==
    /\ resp' = SummaryResponse(args, resolve_window_from_request(args, now))
    /\ UNCHANGED <<store, now>>

\* The responses of api_failures: the query returns the failed runs in one
\* of the orders its ORDER BY allows
FailuresResponses(args, w) ==
    IF IsExc(w) THEN {Response("failures", args, 500, w)}
    ELSE {Response("failures", args, 200, api_failures(failed_runs)) :
             failed_runs \in Orderings(FailedRuns(store, w), "failures")}

\* GET /api/failures
ApiFailures(args) ==
    /\ resp' \in FailuresResponses(args, resolve_window_from_request(args, now))
    /\ UNCHANGED <<store, now>>

\* The responses of api_by_cloud
ByCloudResponses(args, w) ==
    IF IsExc(w) THEN {Response("by_cloud", args, 500, w)}
    ELSE {Response("by_cloud", args, 200, api_by_cloud(groups)) :
             groups \in Orderings(CloudStatusGroups(store, w), "any")}

\* GET /api/by_cloud
ApiByCloud(args) ==
    /\ resp' \in ByCloudResponses(args, resolve_window_from_request(args, now))
    /\ UNCHANGED <<store, now>>

\* The responses of api_runs: the query returns the runs most recent first,
\* those that started at the same instant in any order
RunsResponses(args, w) ==
    IF IsExc(w) THEN {Response("runs", args, 500, w)}
    ELSE {Response("runs", args, 200, api_runs(runs)) :
             runs \in Orderings(FilteredRuns(store, w, args), "recent")}

\* GET /api/runs
ApiRuns(args) ==
    /\ resp' \in RunsResponses(args, resolve_window_from_request(args, now))
    /\ UNCHANGED <<store, now>>

\* GET /api/windows
ApiWindows ==
    /\ resp' = Response("windows", NoArgs, 200, api_windows(now))
    /\ UNCHANGED <<store, now>>

\* GET /api/cloud_trend
ApiCloudTrend(p) ==
    /\ resp' = Response("cloud_trend", p, 200, api_cloud_trend(store, p, now))
    /\ UNCHANGED <<store, now>>

\* The table is empty when the application is first started
Init ==
    /\ store = <<>>
    /\ now \in NowSet
    /\ resp = NoResp

\* The read views over a table that requests fill run by run
Next ==
    \/ Tick(NowSet)
    \/ \E payload \in SingleRunPayloads : IngestJson(payload)
    \/ \E args \in ReadArgs : ApiSummary(args)
    \/ \E args \in ReadArgs : ApiFailures(args)
    \/ \E args \in ReadArgs : ApiByCloud(args)
    \/ \E args \in RunsArgs : ApiRuns(args)
    \/ ApiWindows
    \/ \E p \in DaysArgs : ApiCloudTrend(p)

Spec == Init /\ [][Next]_vars

\* The ingestion endpoint alone, on arrays of up to MaxBatch elements
InitIngest ==
    /\ store = <<>>
    /\ now = Local(Oct24, 12, 0, 0)
    /\ resp = NoResp

NextIngest ==
    \/ \E payload \in Payloads : IngestJson(payload)
    \/ IngestNotArray

SpecIngest == InitIngest /\ [][NextIngest]_vars

\* The window resolver alone: requests at the reference instants, with the
\* window arguments of WinArgs
InitWin ==
    /\ store = <<>>
    /\ now \in RefInstants
    /\ resp = NoResp

NextWin ==
    \/ Tick(RefInstants)
    \/ \E args \in WinArgs : ApiSummary(args)
    \/ ApiWindows

SpecWin == InitWin /\ [][NextWin]_vars

(***************************************************************************)
(* The window resolver (C1 to C3), checked under SpecWin                   *)
(***************************************************************************)

\* 10:00:01 as a second of the day, local and in UTC
AnchorSec == 10 * 3600 + 1
AnchorSecUtc == AnchorSec - TzOffset

\* The date the window of a reference instant on date d, second sec of the
\* day (local) starts on
StartDay(d, sec) == IF sec >= AnchorSec THEN d ELSE d - 1

\* The request served last resolved the default window
DefaultSummary == resp.kind = "summary" /\ resp.args = NoArgs

\* C1: the default window of a reference instant R starts at 10:00:01 local
\* of R's date when R is at or after that second, else at 10:00:01 of the
\* day before, and ends 24 hours later: in the summary served with no
\* window argument (R is the time of the request) and in each entry of the
\* windows list (R is the time of the request minus i days).
C1_DefaultWindow ==
    /\ DefaultSummary =>
          /\ resp.status = 200
          /\ resp.body.window.start_iso =
                IsoAware(StartDay(resp.at.d, resp.at.s), AnchorSec, TzOffset)
          /\ resp.body.window.end_iso =
                IsoAware(StartDay(resp.at.d, resp.at.s) + 1, AnchorSec, TzOffset)
    /\ resp.kind = "windows" =>
          \A i \in 1..NumWindows :
             /\ resp.body[i].label = DateStr(StartDay(resp.at.d - (i - 1), resp.at.s))
             /\ resp.body[i].start_iso =
                   IsoNaive(StartDay(resp.at.d - (i - 1), resp.at.s), AnchorSecUtc)
             /\ resp.body[i].end_iso =
                   IsoNaive(StartDay(resp.at.d - (i - 1), resp.at.s) + 1, AnchorSecUtc)

\* C1, reached: a summary requested at exactly 10:00:01 local was served the
\* window that starts at that instant.
C1_Witness ==
    /\ DefaultSummary
    /\ resp.at.s = AnchorSec
    /\ resp.body.window.start_iso = IsoAware(resp.at.d, AnchorSec, TzOffset)

\* An instant t lies in the 24 hours that follow the window w
InWindowAfter(t, w) ==
    /\ DtLeq(w.end_utc, ToNaiveUtc(t))
    /\ DtLess(ToNaiveUtc(t), AddDays(w.end_utc, 1))

\* The window v starts where the window w ends when t lies in the 24 hours
\* after w
NextStartsAtEnd(t, v, w) == InWindowAfter(t, w) => v.start_utc = w.end_utc

\* Two windows are the same or do not overlap
SameOrDisjoint(v, w) ==
    v = w \/ DtLeq(v.end_utc, w.start_utc) \/ DtLeq(w.end_utc, v.start_utc)

\* The second half of C2 at the current instant: every reference instant of
\* the window after the current one resolves to a window that starts where
\* the current one ends, and no two windows overlap
CrossingTheAnchor ==
    \A t \in RefInstants :
       /\ NextStartsAtEnd(t, get_window_bounds(t), get_window_bounds(now))
       /\ SameOrDisjoint(get_window_bounds(t), get_window_bounds(now))

\* C2 as stated: window(R).end == window(R + 24h).end (in the windows list,
\* entry i + 1 is the window of R and entry i the window of R + 24h), and
\* window(R).end == window(R + e).start when R + e lies in the next window.
C2_AsStated ==
    /\ resp.kind = "windows" =>
          \A i \in 1..(NumWindows - 1) : resp.body[i + 1].end_iso = resp.body[i].end_iso
    /\ get_window_bounds(now).end_utc = get_window_bounds(AddDays(now, 1)).end_utc
    /\ CrossingTheAnchor

\* C2, amended: window(R).end == window(R + 24h).start, and window(R).end ==
\* window(R + e).start when R + e lies in the next window; no two windows
\* overlap.
C2_Contiguous ==
    /\ resp.kind = "windows" =>
          \A i \in 1..(NumWindows - 1) : resp.body[i + 1].end_iso = resp.body[i].start_iso
    /\ get_window_bounds(now).end_utc = get_window_bounds(AddDays(now, 1)).start_utc
    /\ CrossingTheAnchor

\* C2, reached: the windows list was served, and a reference instant lies in
\* the window after the current one.
C2_Witness ==
    /\ resp.kind = "windows"
    /\ resp.at = now
    /\ \E t \in RefInstants : InWindowAfter(t, get_window_bounds(now))

\* The instant an ISO string (or an isoformat() output) names, a naive one
\* taken as UTC: <<date, second of the day>> in UTC
OffsetOf(v) == IF "off" \in DOMAIN v THEN v.off ELSE 0
SecondOf(v) == IF "s" \in DOMAIN v THEN v.s ELSE 0
InstantOf(v) ==
    <<v.d + ((SecondOf(v) - OffsetOf(v)) \div SecPerDay),
      (SecondOf(v) - OffsetOf(v)) % SecPerDay>>

\* The argument is supplied and parses as ISO-8601 / as a calendar date
ParsesAsIso(v) == v.k \in {"iso", "date"}
ParsesAsDate(v) == v.k = "date"

\* C3 as stated, its last sentence: no combination of the window arguments
\* produces an error.
C3_NeverAnError == resp.kind = "summary" => resp.status = 200

\* C3, the rest of it, wherever a window was served: start and end both
\* parseable give the window [start, end); else a parseable day D gives
\* [D 10:00:01 local, D+1 10:00:01 local); else the default window of the
\* time of the request.
C3_ResolvedWindow ==
    (resp.kind = "summary" /\ resp.status = 200) =>
        IF ParsesAsIso(resp.args.start) /\ ParsesAsIso(resp.args.end)
        THEN /\ InstantOf(resp.body.window.start_iso) = InstantOf(resp.args.start)
             /\ InstantOf(resp.body.window.end_iso) = InstantOf(resp.args.end)
        ELSE IF ParsesAsDate(resp.args.day)
        THEN /\ resp.body.window.start_iso =
                   IsoAware(resp.args.day.d, AnchorSec, TzOffset)
             /\ resp.body.window.end_iso =
                   IsoAware(resp.args.day.d + 1, AnchorSec, TzOffset)
        ELSE /\ resp.body.window.start_iso =
                   IsoAware(StartDay(resp.at.d, resp.at.s), AnchorSec, TzOffset)
             /\ resp.body.window.end_iso =
                   IsoAware(StartDay(resp.at.d, resp.at.s) + 1, AnchorSec, TzOffset)

(***************************************************************************)
(* Ingestion (C4, C5), checked under SpecIngest                            *)
(***************************************************************************)

RequestIds(rows) == {rows[i].request_id : i \in 1..Len(rows)}

PayloadIds(payload) == {payload[i]["request_id"] : i \in 1..Len(payload)}

\* The value a stored run has for a field the element does not give
FieldDefault(key) ==
    CASE key = "scheduler" -> "BLR-NSP-SCHEDULER1"
      [] key = "status" -> "FAILED"
      [] OTHER -> None

TextFields == {"scheduler", "cloud", "status", "reason", "subreason", "notes"}

\* The stored run holds exactly the field values of the element: each text
\* field as given, or its default when the element omits it, and the
\* timestamps the element's strings name
HoldsValuesOf(row, item) ==
    /\ row.request_id = item["request_id"]
    /\ \A key \in TextFields :
          row[key] = IF key \in DOMAIN item THEN item[key] ELSE FieldDefault(key)
    /\ InstantOf(IsoFormat(row.started_at)) = <<item["started_at"].d, item["started_at"].s>>
    /\ IF "ended_at" \in DOMAIN item
       THEN InstantOf(IsoFormat(row.ended_at)) = <<item["ended_at"].d, item["ended_at"].s>>
       ELSE row.ended_at = NoneDt

\* The last element of the payload with the request id
LastWith(payload, rid) ==
    payload[Last({i \in 1..Len(payload) : payload[i]["request_id"] = rid})]

RowsWith(rows, rid) == {i \in 1..Len(rows) : rows[i].request_id = rid}

\* After the well-formed payload is ingested into the table before, with
\* result r: one row per request id ever ingested, and for each request id
\* of the payload the values of its last element
UpsertedOnce(before, payload, r) ==
    /\ r.exc = None
    /\ RequestIds(r.rows) = RequestIds(before) \cup PayloadIds(payload)
    /\ \A rid \in RequestIds(r.rows) : Cardinality(RowsWith(r.rows, rid)) = 1
    /\ \A rid \in PayloadIds(payload) :
          \A i \in RowsWith(r.rows, rid) : HoldsValuesOf(r.rows[i], LastWith(payload, rid))
    /\ r.added = Cardinality(PayloadIds(payload) \ RequestIds(before))
    /\ r.added + r.updated = Len(payload)

\* The same payload ingested again, with result again, after result first
SecondTimeUpdates(payload, first, again) ==
    /\ again.rows = first.rows
    /\ again.added = 0
    /\ again.updated = Len(payload)

\* C4: upsert by request_id is idempotent and last-write-wins.  In every
\* table a sequence of ingestion requests leads to, no two rows share a
\* request_id; ingesting a well-formed array leaves one row per request id
\* ingested, each with exactly the values of the last element of the array
\* that names it (defaults for what that element omits); and ingesting the
\* array a second time leaves the table as it is and tallies every element
\* as updated, none as created.
C4_UpsertLastWriteWins ==
    /\ Cardinality(RequestIds(store)) = Len(store)
    /\ \A payload \in WellFormedPayloads :
          /\ UpsertedOnce(store, payload, ingest_json(store, payload))
          /\ SecondTimeUpdates(payload, ingest_json(store, payload),
                               ingest_json(ingest_json(store, payload).rows, payload))

\* C4, reached: an array of two elements with the same request_id was
\* ingested into a table that held it: both tallied as updated, one row, with
\* the values of ItemR1 (the second element, which omits the optional fields
\* the first one gave).
C4_Witness ==
    /\ resp.kind = "ingest" /\ resp.status = 302
    /\ resp.args.items = 2 /\ resp.body.added = 0 /\ resp.body.updated = 2
    /\ Len(store) = 1
    /\ HoldsValuesOf(store[1], ItemR1)
    /\ store[1].cloud = None

\* The element lacks request_id or started_at
LacksRequired(item) == "request_id" \notin DOMAIN item \/ "started_at" \notin DOMAIN item

\* The first element of the payload that lacks a required field, 0 for none
FirstLacking(payload) ==
    IF \E i \in 1..Len(payload) : LacksRequired(payload[i])
    THEN CHOOSE i \in 1..Len(payload) :
            /\ LacksRequired(payload[i])
            /\ \A j \in 1..(i - 1) : ~LacksRequired(payload[j])
    ELSE 0

\* The request fails at element k of the payload
FailsAt(r, k) == r.exc = "KeyError" /\ r.at = k

\* C5 as stated: a batch whose element k lacks a required field fails at k,
\* and the table after the failed request holds what elements 1..k-1 wrote.
C5_AsStated ==
    \A payload \in Payloads :
       FirstLacking(payload) # 0 =>
          /\ FailsAt(ingest_json(store, payload), FirstLacking(payload))
          /\ ingest_json(store, payload).rows =
                ingest_json(store, SubSeq(payload, 1, FirstLacking(payload) - 1)).rows

\* C5, amended: a batch whose element k lacks a required field fails at k,
\* no element after k is processed, and the table after the failed request
\* is the table before it: what elements 1..k-1 wrote is not committed.
C5_FailedBatchLeavesNothing ==
    /\ \A payload \in Payloads :
          FirstLacking(payload) # 0 =>
             /\ FailsAt(ingest_json(store, payload), FirstLacking(payload))
             /\ ingest_json(store, payload).rows = store
    /\ (resp.kind = "ingest" /\ resp.status = 500) =>
          resp.body.exc = "KeyError" /\ resp.body.at \in 1..resp.args.items

\* C5, reached: a request failed at its second element, and the table is
\* still empty: the run its first element created is not there.
C5_Witness ==
    /\ resp.kind = "ingest" /\ resp.status = 500
    /\ resp.body.at = 2
    /\ store = <<>>

(***************************************************************************)
(* The read views (C6 to C10), checked under Spec.  A state whose last     *)
(* response is a view's holds the table the view was computed on: only an  *)
(* ingestion changes the table, and it replaces the response.              *)
(***************************************************************************)

\* The window the request served last resolved
ServedWindow == resolve_window_from_request(resp.args, resp.at)

\* The runs of the table in the window served
ServedRuns == RunsIn(store, ServedWindow)

\* The value of days the trend request asked for: 7 unless the argument is
\* an integer, then clamped to 1..30
DaysAsked(p) ==
    IF p.k # "int" THEN 7 ELSE IF p.n < 1 THEN 1 ELSE IF p.n > 30 THEN 30 ELSE p.n

\* The Asia/Kolkata calendar date of a stored (UTC) datetime
LocalDate(dt) == dt.d + ((dt.s + TzOffset) \div SecPerDay)

\* The runs of the trend range of a request for n days served on the local
\* date today: local midnight n - 1 days before today to local midnight
\* tomorrow
InTrendRange(r, today, n) ==
    LocalDate(r.started_at) >= today - (n - 1) /\ LocalDate(r.started_at) <= today

TrendRangeRuns(today, n) == {r \in RowsOf(store) : InTrendRange(r, today, n)}

RECURSIVE SumOver(_, _)
SumOver(series, field) ==
    IF series = <<>> THEN 0 ELSE Head(series)[field] + SumOver(Tail(series), field)

\* The clouds of the trend: the two known ones and every one observed
TrendClouds(today, n) ==
    {"blr-cloud4", "blr-cloud5"} \cup {CloudKey(r.cloud) : r \in TrendRangeRuns(today, n)}

\* Every series has one entry per day label, in order, the last label being
\* the day of the request
SeriesShape(body, today, n) ==
    /\ Len(body.days) = n
    /\ \A i \in 1..n : body.days[i] = DateStr(today - n + i)
    /\ DOMAIN body.clouds = TrendClouds(today, n)
    /\ \A c \in DOMAIN body.clouds :
          /\ Len(body.clouds[c]) = n
          /\ \A i \in 1..n : body.clouds[c][i].date = body.days[i]

\* The runs of cloud c in the trend range that are neither PASSED nor FAILED
\* and fall on the local date day
KilledAndOther(c, day, today, n) ==
    Cardinality({r \in TrendRangeRuns(today, n) :
                    /\ CloudKey(r.cloud) = c
                    /\ LocalDate(r.started_at) = day
                    /\ r.status \notin {"PASSED", "FAILED"}})

\* C6 as stated: every series has exactly days entries, and in every entry
\* total == passed + failed + killed-and-other.
C6_AsStated ==
    resp.kind = "cloud_trend" =>
        /\ SeriesShape(resp.body, resp.at.d, DaysAsked(resp.args))
        /\ \A c \in DOMAIN resp.body.clouds :
              \A i \in 1..Len(resp.body.clouds[c]) :
                 resp.body.clouds[c][i].total =
                    resp.body.clouds[c][i].passed + resp.body.clouds[c][i].failed
                    + KilledAndOther(c, resp.body.days[i].d, resp.at.d,
                                     DaysAsked(resp.args))

\* C6, amended: every series has exactly days entries, one per day label in
\* order, zero entries included, and in every entry total == passed + failed:
\* there is no third count, the runs of any status other than PASSED are
\* counted in failed.  A series counts no more runs than its cloud has in
\* the range, and no more passed runs than it has PASSED ones.
C6_SeriesShapeAndSums ==
    resp.kind = "cloud_trend" =>
        /\ SeriesShape(resp.body, resp.at.d, DaysAsked(resp.args))
        /\ \A c \in DOMAIN resp.body.clouds :
              /\ \A i \in 1..Len(resp.body.clouds[c]) :
                    /\ resp.body.clouds[c][i].total =
                          resp.body.clouds[c][i].passed + resp.body.clouds[c][i].failed
                    /\ resp.body.clouds[c][i].passed >= 0
                    /\ resp.body.clouds[c][i].failed >= 0
              /\ SumOver(resp.body.clouds[c], "total") <=
                    Cardinality({r \in TrendRangeRuns(resp.at.d, DaysAsked(resp.args)) :
                                    CloudKey(r.cloud) = c})
              /\ SumOver(resp.body.clouds[c], "passed") <=
                    Cardinality({r \in TrendRangeRuns(resp.at.d, DaysAsked(resp.args)) :
                                    CloudKey(r.cloud) = c /\ r.status = "PASSED"})

\* C6, reached: a trend of two days whose blr-cloud5 series has a zero entry
\* and an entry that counts the KILLED run as failed.
C6_Witness ==
    /\ resp.kind = "cloud_trend"
    /\ Len(resp.body.days) = 2
    /\ \E r \in RowsOf(store) : r.status = "KILLED" /\ r.cloud = "blr-cloud5"
    /\ \E i, j \in 1..2 :
          /\ resp.body.clouds["blr-cloud5"][i].total = 0
          /\ resp.body.clouds["blr-cloud5"][j].failed = 1
          /\ resp.body.clouds["blr-cloud5"][j].total = 1

DtLeqPair(a, b) == a[1] < b[1] \/ (a[1] = b[1] /\ a[2] <= b[2])

MostRecentFirst(list) ==
    \A i, j \in 1..Len(list) :
       i < j => DtLeqPair(InstantOf(list[j].started_at), InstantOf(list[i].started_at))

\* C7 as stated: the failures view maps each reason (absent as "Unknown") to
\* the FAILED runs of the window with that reason, each list most recent
\* first, the "Unknown" list included.
C7_MostRecentFirst ==
    (resp.kind = "failures" /\ resp.status = 200) =>
        /\ DOMAIN resp.body =
              {ReasonKey(r.reason) : r \in {x \in ServedRuns : x.status = "FAILED"}}
        /\ \A k \in DOMAIN resp.body :
              /\ {resp.body[k][i].request_id : i \in 1..Len(resp.body[k])} =
                    {r.request_id : r \in {x \in ServedRuns :
                                              x.status = "FAILED" /\ ReasonKey(x.reason) = k}}
              /\ MostRecentFirst(resp.body[k])

\* The number of runs of the window served whose cloud presents as c and
\* whose status is st
RunsOfCloudStatus(c, st) ==
    Cardinality({r \in ServedRuns : CloudKey(r.cloud) = c /\ r.status = st})

\* C8 as stated: out[c][s] is the number of runs of the window whose cloud
\* presents as c and whose status is s, for every c and s with such runs.
C8_CountsPerCloudAndStatus ==
    (resp.kind = "by_cloud" /\ resp.status = 200) =>
        /\ DOMAIN resp.body = {CloudKey(r.cloud) : r \in ServedRuns}
        /\ \A c \in DOMAIN resp.body :
              /\ DOMAIN resp.body[c] =
                    {r.status : r \in {x \in ServedRuns : CloudKey(x.cloud) = c}}
              /\ \A st \in DOMAIN resp.body[c] :
                    resp.body[c][st] = RunsOfCloudStatus(c, st)

\* The table of the example: r1 and r2, nothing else
ExampleStore ==
    /\ Len(store) = 2
    /\ \E i, j \in 1..2 : HoldsValuesOf(store[i], ItemR1) /\ HoldsValuesOf(store[j], ItemR2)

\* The request served last asked for the window that starts at 10:00:01
\* local on the date d
ServedWindowOf(d) ==
    /\ resp.kind \in {"summary", "failures"}
    /\ resp.status = 200
    /\ ServedWindow.start_local = Local(d, 10, 0, 1)
    /\ ServedWindow.end_local = Local(d + 1, 10, 0, 1)

\* The failures view lists r2 alone, under "Quota Exceed"
ListsR2 ==
    /\ DOMAIN resp.body = {"Quota Exceed"}
    /\ Len(resp.body["Quota Exceed"]) = 1
    /\ resp.body["Quota Exceed"][1].request_id = "r2"

\* C9 as stated: with r1 and r2 stored, the window from Oct 24 10:00:01 to
\* Oct 25 10:00:01 local has total 2, PASSED 1, FAILED 1, and its failures
\* view is {"Quota Exceed": [r2]}.
C9_AsStated ==
    (ExampleStore /\ ServedWindowOf(Oct24)) =>
        /\ resp.kind = "summary" =>
              /\ resp.body.total_runs = 2
              /\ resp.body.status_counts = [st \in {"PASSED", "FAILED"} |-> 1]
        /\ resp.kind = "failures" => ListsR2

\* C9, amended: r2 started at 03:00 UTC, 08:30 local, before the anchor of
\* Oct 24.  The window from Oct 24 10:00:01 to Oct 25 10:00:01 local has
\* total 1, PASSED 1, no FAILED, and its failures view is empty; the window
\* from Oct 23 10:00:01 to Oct 24 10:00:01 local has total 1, FAILED 1, and
\* its failures view is {"Quota Exceed": [r2]}.
C9_ExampleByWindow ==
    /\ (ExampleStore /\ ServedWindowOf(Oct24)) =>
          /\ resp.kind = "summary" =>
                /\ resp.body.total_runs = 1
                /\ resp.body.status_counts = [st \in {"PASSED"} |-> 1]
                /\ resp.body.failures = <<>>
          /\ resp.kind = "failures" => DOMAIN resp.body = {}
    /\ (ExampleStore /\ ServedWindowOf(Oct23)) =>
          /\ resp.kind = "summary" =>
                /\ resp.body.total_runs = 1
                /\ resp.body.status_counts = [st \in {"FAILED"} |-> 1]
                /\ resp.body.failures = <<[reason |-> "Quota Exceed", count |-> 1]>>
          /\ resp.kind = "failures" => ListsR2

\* C9, reached: r1 and r2 are stored and the failures view of the window
\* from Oct 24 10:00:01 local was served, empty.
C9_Witness ==
    /\ ExampleStore
    /\ ServedWindowOf(Oct24)
    /\ resp.kind = "failures"
    /\ DOMAIN resp.body = {}

\* C10 as stated: every run of the trend range is counted in the entry of
\* its cloud's series whose date is the local calendar date of its
\* started_at, so each entry's total is the number of such runs.
C10_LocalDateBuckets ==
    resp.kind = "cloud_trend" =>
        \A c \in DOMAIN resp.body.clouds :
           \A i \in 1..Len(resp.body.clouds[c]) :
              resp.body.clouds[c][i].total =
                 Cardinality({r \in TrendRangeRuns(resp.at.d, DaysAsked(resp.args)) :
                                 /\ CloudKey(r.cloud) = c
                                 /\ LocalDate(r.started_at) = resp.body.days[i].d})

(***************************************************************************)
(* The boundary between consecutive daily windows (C11), checked under     *)
(* Spec                                                                    *)
(***************************************************************************)

\* The daily window that starts at 10:00:01 local on the date d
DailyWindow(d) == get_window_bounds(Local(d, 12, 0, 0))

\* The dates whose daily windows the requests of the model ask for
WindowDays == {Oct23 - 1, Oct23, Oct24, Oct25}

\* The instant a stored started_at names
StartedAt(r) == <<r.started_at.d, r.started_at.s>>

\* lo <= t < hi, and lo < t <= hi, for three instants
FromStartUpToEnd(t, lo, hi) == DtLeqPair(lo, t) /\ ~DtLeqPair(hi, t)
AfterStartThroughEnd(t, lo, hi) == ~DtLeqPair(t, lo) /\ DtLeqPair(t, hi)

\* The request ids a runs listing or a failures view lists
ListedIn(list) == {list[i].request_id : i \in 1..Len(list)}
ListedInBuckets(body) == UNION {ListedIn(body[k]) : k \in DOMAIN body}

\* The stored runs whose started_at is at or after the start of the window
\* served and before its end
StartToEnd(lo, hi) == {r \in RowsOf(store) : FromStartUpToEnd(StartedAt(r), lo, hi)}

\* The stored runs whose started_at is after the start of the window served
\* and at or before its end
PastStartThroughEnd(lo, hi) ==
    {r \in RowsOf(store) : AfterStartThroughEnd(StartedAt(r), lo, hi)}

\* The response served last counts exactly the runs of the set owned (the
\* summary in its total, its window being the one its body names; the runs
\* listing those that match its filters; the failures view the FAILED ones)
SummaryCounts(owned) == resp.body.total_runs = Cardinality(owned)
RunsListCounts(owned) ==
    ListedIn(resp.body) = {r.request_id : r \in {x \in owned : MatchesFilters(x, resp.args)}}
FailuresCounts(owned) ==
    ListedInBuckets(resp.body) = {r.request_id : r \in {x \in owned : x.status = "FAILED"}}

\* A windowed view was served
ViewServed(kind) == resp.kind = kind /\ resp.status = 200

\* The bounds of the window served, as instants
ServedStart == <<ServedWindow.start_utc.d, ServedWindow.start_utc.s>>
ServedEnd == <<ServedWindow.end_utc.d, ServedWindow.end_utc.s>>

\* No stored run is in both of two consecutive daily windows, and the
\* second starts at the instant the first ends
CountedAtMostOnce(d) ==
    /\ DailyWindow(d).end_utc = DailyWindow(d + 1).start_utc
    /\ RunsIn(store, DailyWindow(d)) \cap RunsIn(store, DailyWindow(d + 1)) = {}

\* The stored runs that started at the instant the daily window of d ends
AtBoundaryAfter(d) == {r \in RowsOf(store) : r.started_at = DailyWindow(d).end_utc}

\* C11 as stated: a run that started at the boundary instant of two
\* consecutive daily windows is counted in the preceding window, never in
\* the following one (each view counts the runs after the start of its
\* window through its end), and no run is counted in both.
C11_AsStated ==
    /\ \A d \in WindowDays :
          /\ CountedAtMostOnce(d)
          /\ AtBoundaryAfter(d) \subseteq RunsIn(store, DailyWindow(d))
          /\ AtBoundaryAfter(d) \cap RunsIn(store, DailyWindow(d + 1)) = {}
    /\ ViewServed("summary") =>
          SummaryCounts(PastStartThroughEnd(InstantOf(resp.body.window.start_iso),
                                            InstantOf(resp.body.window.end_iso)))
    /\ ViewServed("runs") => RunsListCounts(PastStartThroughEnd(ServedStart, ServedEnd))
    /\ ViewServed("failures") => FailuresCounts(PastStartThroughEnd(ServedStart, ServedEnd))

\* C11, amended: consecutive daily windows never overlap in what they count
\* and every stored run is counted in at most one of two consecutive daily
\* windows; a run that started at the boundary instant (a local 10:00:01
\* anchor) is counted in the following window, the one that starts at that
\* instant, never in the preceding one: the summary, the runs listing and
\* the failures view count the runs at or after the start of their window
\* and before its end.
C11_BoundaryInFollowingWindow ==
    /\ \A d \in WindowDays :
          /\ CountedAtMostOnce(d)
          /\ AtBoundaryAfter(d) \subseteq RunsIn(store, DailyWindow(d + 1))
          /\ AtBoundaryAfter(d) \cap RunsIn(store, DailyWindow(d)) = {}
    /\ ViewServed("summary") =>
          SummaryCounts(StartToEnd(InstantOf(resp.body.window.start_iso),
                                   InstantOf(resp.body.window.end_iso)))
    /\ ViewServed("runs") => RunsListCounts(StartToEnd(ServedStart, ServedEnd))
    /\ ViewServed("failures") => FailuresCounts(StartToEnd(ServedStart, ServedEnd))

\* C11, reached: a run is stored that started at 10:00:01 local on Oct 24,
\* and the runs listing of the daily window that starts at that instant was
\* served, unfiltered, and lists it.
C11_Witness ==
    /\ ViewServed("runs")
    /\ resp.args.status = None /\ resp.args.reason = None
    /\ resp.args.scheduler = None /\ resp.args.cloud = None
    /\ ServedWindow = DailyWindow(Oct24)
    /\ \E r \in AtBoundaryAfter(Oct23) : r.request_id \in ListedIn(resp.body)

====
